---- MODULE Spec2Model ----
(***************************************************************************)
(* hashed-email-cracker (src/src/main.rs).                                 *)
(*                                                                         *)
(* StringsGenerator is an odometer over a dictionary: `generators` is a    *)
(* stack of std::str::Chars cursors (one per position) and                 *)
(* `current_combination` the candidate buffer.  main() bridges the         *)
(* generator to a rayon thread pool, crosses every username with every     *)
(* domain, hashes the address and prints the ones whose digest is among    *)
(* the wanted ones.                                                        *)
(*                                                                         *)
(* A string is a sequence of one-character strings.  A Chars cursor is the *)
(* number of characters of the dictionary it has already handed out.       *)
(* The build modelled is the one with feature "loop".                       *)
(***************************************************************************)
EXTENDS Integers, Sequences, FiniteSets, Bags, TLC

VARIABLES
    dictionary,           \* StringsGenerator.dictionary
    max_length,           \* the max_length given to StringsGenerator::new
    generators,           \* StringsGenerator.generators
    current_combination,  \* StringsGenerator.current_combination
    panicked,             \* a thread panicked (unwrap on None, or a failed writeln)
    yielded,              \* history: the strings next() returned, in order
    last,                 \* history: result of the latest next(): "new", "some", "none"
    extra,                \* history: number of next() calls made after the first None
    domains,              \* CliOpts.domains
    hashed_emails,        \* CliOpts.hashed_emails
    fold,                 \* per worker, its share of the bridged iterator:
                          \*   "poll" about to call next(), "wait" inside flat_map
                          \*   for the item it took, "end" left the loop
    tasks,                \* (username, domain) jobs of the inner par_iter not yet begun
    run,                  \* per worker, the job it is executing (or NoTask)
    stdout_lock,          \* holder of the stdout lock, 0 when free
    sink,                 \* stdout: the pieces written, in order
    failed,               \* history: jobs whose writeln returned Err
    filtered,             \* history: bag of the jobs that went through filter
    main,                 \* "running", "done" (for_each returned), "panic"
    arg_max_length,       \* --max-length as structopt parsed it (u8)
    options_max_length,   \* options.max_length
    stage,                \* main's progress up to StringsGenerator::new:
                          \*   "parsed", "clamped", "built" ("none": not modelled)
    rec_generators,       \* generators of the generator built with feature "recursion"
    rec_current_combination,  \* its current_combination
    rec_last,             \* history: result of its latest next()
    pc,                   \* where the caller stands inside next() / increment:
                          \*   "idle" (outside), "test", "pop_char", "pop_cursor",
                          \*   "check", "recover", "push_cursor"
    loop_tries,           \* the local `tries` of increment
    entry                 \* history: the generator as it was when next() was entered

genVars == <<dictionary, max_length, generators, current_combination,
             panicked, yielded, last, extra>>

pipeVars == <<domains, hashed_emails, fold, tasks, run, stdout_lock, sink,
              failed, filtered, main>>

cliVars == <<arg_max_length, options_max_length, stage>>

recVars == <<rec_generators, rec_current_combination, rec_last>>

stepVars == <<pc, loop_tries, entry>>

auxVars == <<recVars, stepVars>>

vars == <<genVars, pipeVars, cliVars, auxVars>>

----------------------------------------------------------------------------
(* Bounds of the model *)

\* longest max_length the generator is built with
MaxLen == 3
\* largest dictionary (a prefix of AllChars)
MaxDict == 3
\* next() calls made after the generator first returned None
MaxExtra == 2

\* const DICTIONARY
DICTIONARY ==
    <<"a", "b", "c", "d", "e", "f", "g", "h", "i", "j", "k", "l", "m",
      "n", "o", "p", "q", "r", "s", "t", "u", "v", "w", "x", "y", "z",
      "A", "B", "C", "D", "E", "F", "G", "H", "I", "J", "K", "L", "M",
      "N", "O", "P", "Q", "R", "S", "T", "U", "V", "W", "X", "Y", "Z",
      "0", "1", "2", "3", "4", "5", "6", "7", "8", "9", "_", ".", "+">>

AllChars == DICTIONARY

\* the dictionaries tried: the prefixes of AllChars, and one with a repeated char
Dictionaries ==
    {SubSeq(AllChars, 1, k) : k \in 0..MaxDict} \cup {<<"a", "a">>}

----------------------------------------------------------------------------
(* Helpers for Vec / String *)

\* Vec::pop / String::pop: drops the last element, a no-op on an empty one
Pop(s) == IF Len(s) = 0 THEN s ELSE SubSeq(s, 1, Len(s) - 1)

Range(s) == {s[i] : i \in DOMAIN s}

RECURSIVE Pow(_, _)
Pow(k, n) == IF n = 0 THEN 1 ELSE k * Pow(k, n - 1)

\* the generator as a value: the two fields a step mutates, and whether it panicked
Gen(gens, comb, panic) ==
    [generators |-> gens, current_combination |-> comb, panic |-> panic]

----------------------------------------------------------------------------
(* StringsGenerator *)

\* new with `<=` for `<` in its while loop: one cursor too many
new_one_more(n, dict) == Gen([i \in 1..(n + 1) |-> 0], <<>>, FALSE)

\* StringsGenerator::new: max_length fresh cursors, an empty buffer
new(n, dict) == Gen([i \in 1..n |-> 0], <<>>, FALSE)

\* increment_last_char without `self.current_combination.pop()`
increment_last_char_no_pop(dict, g) ==
    LET n == Len(g.generators) IN
    IF n > 0 /\ g.generators[n] < Len(dict)
    THEN [ok |-> TRUE,
          g  |-> Gen([g.generators EXCEPT ![n] = @ + 1],
                     Append(g.current_combination, dict[g.generators[n] + 1]),
                     g.panic)]
    ELSE [ok |-> FALSE, g |-> g]

\* increment_last_char: advance the last cursor; on a next char replace the
\* last char of the buffer (pop, then push) and succeed
increment_last_char(dict, g) ==
    LET n == Len(g.generators) IN
    IF n > 0 /\ g.generators[n] < Len(dict)
    THEN [ok |-> TRUE,
          g  |-> Gen([g.generators EXCEPT ![n] = @ + 1],
                     Append(Pop(g.current_combination), dict[g.generators[n] + 1]),
                     g.panic)]
    ELSE [ok |-> FALSE, g |-> g]

\* carry_loop with `tries += 1` left out
RECURSIVE carry_loop_no_count(_, _, _)
carry_loop_no_count(dict, g, tries) ==
    LET r == increment_last_char(dict, g) IN
    IF ~r.ok /\ Len(g.generators) # 0
    THEN carry_loop_no_count(dict,
                    Gen(Pop(g.generators), Pop(g.current_combination), g.panic),
                    tries)
    ELSE [g |-> r.g, tries |-> tries]

\* carry_loop with `self.current_combination.pop()` left out
RECURSIVE carry_loop_keep_char(_, _, _)
carry_loop_keep_char(dict, g, tries) ==
    LET r == increment_last_char(dict, g) IN
    IF ~r.ok /\ Len(g.generators) # 0
    THEN carry_loop_keep_char(dict,
                    Gen(Pop(g.generators), g.current_combination, g.panic),
                    tries + 1)
    ELSE [g |-> r.g, tries |-> tries]

\* the first while loop of increment: as long as the last char cannot be
\* incremented and a cursor is left, drop the last char and the last cursor
RECURSIVE carry_loop(_, _, _)
carry_loop(dict, g, tries) ==
    LET r == increment_last_char(dict, g) IN
    IF ~r.ok /\ Len(g.generators) # 0
    THEN carry_loop(dict,
                    Gen(Pop(g.generators), Pop(g.current_combination), g.panic),
                    tries + 1)
    ELSE [g |-> r.g, tries |-> tries]

\* recover_one pushing an untouched cursor (self.dictionary.chars()) instead of new_chars
recover_one_rewound(dict, g) ==
    IF Len(dict) = 0
    THEN Gen(g.generators, g.current_combination, TRUE)
    ELSE Gen(Append(g.generators, 0), Append(g.current_combination, dict[1]), g.panic)

\* recover_one that restores the cursor but not its character
recover_one_no_push(dict, g) ==
    IF Len(dict) = 0
    THEN Gen(g.generators, g.current_combination, TRUE)
    ELSE Gen(Append(g.generators, 1), g.current_combination, g.panic)

\* one round of the second while loop: a fresh cursor hands out the first
\* char of the dictionary (unwrap panics when there is none)
recover_one(dict, g) ==
    IF Len(dict) = 0
    THEN Gen(g.generators, g.current_combination, TRUE)
    ELSE Gen(Append(g.generators, 1), Append(g.current_combination, dict[1]), g.panic)

\* recover_loop with `while tries > 1`: the last dropped position is not given back
RECURSIVE recover_loop_one_short(_, _, _)
recover_loop_one_short(dict, g, tries) ==
    IF tries <= 1 \/ g.panic
    THEN g
    ELSE recover_loop_one_short(dict, recover_one(dict, g), tries - 1)

\* the second while loop of increment: give back the positions the carry dropped
RECURSIVE recover_loop(_, _, _)
recover_loop(dict, g, tries) ==
    IF tries = 0 \/ g.panic
    THEN g
    ELSE recover_loop(dict, recover_one(dict, g), tries - 1)

\* increment giving the dropped positions back before it reports exhaustion
increment_restoring(dict, g) ==
    LET c == carry_loop(dict, g, 0)
        h == recover_loop(dict, c.g, c.tries) IN
    IF Len(c.g.generators) = 0
    THEN [ok |-> FALSE, g |-> h]
    ELSE [ok |-> ~h.panic, g |-> h]

\* increment without `if self.generators.len() == 0 { return Err(()) }`
increment_unchecked(dict, g) ==
    LET c == carry_loop(dict, g, 0)
        h == recover_loop(dict, c.g, c.tries) IN
    [ok |-> ~h.panic, g |-> h]

\* increment, feature "loop"
increment(dict, g) ==
    LET c == carry_loop(dict, g, 0) IN
    IF Len(c.g.generators) = 0
    THEN [ok |-> FALSE, g |-> c.g]
    ELSE LET h == recover_loop(dict, c.g, c.tries) IN
         [ok |-> ~h.panic, g |-> h]

\* Iterator::next: Some(clone of the buffer) when increment succeeded, else None
next(dict, g) ==
    LET r == increment(dict, g) IN
    [some |-> r.ok, item |-> r.g.current_combination, g |-> r.g]

\* increment, feature "recursion", with the result of the inner call dropped
\* (`let _ = self.increment();` for `self.increment()?;`)
RECURSIVE increment_recursion_unchecked(_, _)
increment_recursion_unchecked(dict, g) ==
    LET r == increment_last_char(dict, g) IN
    IF r.ok
    THEN [ok |-> TRUE, g |-> r.g]
    ELSE LET p == Gen(Pop(g.generators), Pop(g.current_combination), g.panic) IN
         IF Len(p.generators) = 0
         THEN [ok |-> FALSE, g |-> p]
         ELSE LET q == increment_recursion_unchecked(dict, p)
                  h == recover_one(dict, q.g)
              IN [ok |-> ~h.panic, g |-> h]

\* increment, feature "recursion": on a failed increment_last_char drop the
\* last char and cursor, give up when no cursor is left, carry into the
\* shorter stack (`?` hands an Err on) and then restore the position.
\* The block reads self.dictionary_source; the struct holds one dictionary,
\* the field `dictionary`, which is what is read here.
RECURSIVE increment_recursion(_, _)
increment_recursion(dict, g) ==
    LET r == increment_last_char(dict, g) IN
    IF r.ok
    THEN [ok |-> TRUE, g |-> r.g]
    ELSE LET p == Gen(Pop(g.generators), Pop(g.current_combination), g.panic) IN
         IF Len(p.generators) = 0
         THEN [ok |-> FALSE, g |-> p]
         ELSE LET q == increment_recursion(dict, p) IN
              IF ~q.ok
              THEN q
              ELSE LET h == recover_one(dict, q.g) IN
                   [ok |-> ~h.panic, g |-> h]

\* Iterator::next in the build with feature "recursion"
next_recursion(dict, g) ==
    LET r == increment_recursion(dict, g) IN
    [some |-> r.ok, item |-> r.g.current_combination, g |-> r.g]

----------------------------------------------------------------------------
(* Specification Spec: a caller polls one generator *)

\* no pipeline around the generator
NoPipeline ==
    /\ domains = <<>>
    /\ hashed_emails = <<>>
    /\ fold = <<>>
    /\ tasks = {}
    /\ run = <<>>
    /\ stdout_lock = 0
    /\ sink = <<>>
    /\ failed = {}
    /\ filtered = EmptyBag
    /\ main = "running"

\* no command line in front of the generator
NoCli ==
    /\ arg_max_length = 0
    /\ options_max_length = 0
    /\ stage = "none"

\* no second generator beside the first
NoRec ==
    /\ rec_generators = <<>>
    /\ rec_current_combination = <<>>
    /\ rec_last = "new"

\* next() taken as one step
NoSteps ==
    /\ pc = "idle"
    /\ loop_tries = 0
    /\ entry = Gen(<<>>, <<>>, FALSE)

Init ==
    /\ NoPipeline
    /\ NoCli
    /\ NoRec
    /\ NoSteps
    /\ dictionary \in Dictionaries
    /\ max_length \in 0..MaxLen
    /\ generators = new(max_length, dictionary).generators
    /\ current_combination = new(max_length, dictionary).current_combination
    /\ panicked = FALSE
    /\ yielded = <<>>
    /\ last = "new"
    /\ extra = 0

\* one call of next() on the generator
CallNext ==
    /\ ~panicked
    /\ last = "none" => extra < MaxExtra
    /\ LET r == next(dictionary, Gen(generators, current_combination, FALSE)) IN
        /\ generators' = r.g.generators
        /\ current_combination' = r.g.current_combination
        /\ panicked' = r.g.panic
        /\ yielded' = IF r.some THEN Append(yielded, r.item) ELSE yielded
        /\ last' = IF r.g.panic THEN "panic" ELSE IF r.some THEN "some" ELSE "none"
        /\ extra' = IF last = "none" THEN extra + 1 ELSE extra
    /\ UNCHANGED <<dictionary, max_length>>
    /\ UNCHANGED <<pipeVars, cliVars, auxVars>>

Next == CallNext

Spec == Init /\ [][Next]_vars

----------------------------------------------------------------------------
(* Specification SpecVariants: the builds with feature "loop" and with     *)
(* feature "recursion", given the same arguments and polled in lockstep    *)

VariantsInit ==
    /\ NoPipeline
    /\ NoCli
    /\ NoSteps
    /\ dictionary \in Dictionaries
    /\ max_length \in 0..MaxLen
    /\ generators = new(max_length, dictionary).generators
    /\ current_combination = new(max_length, dictionary).current_combination
    /\ rec_generators = new(max_length, dictionary).generators
    /\ rec_current_combination = new(max_length, dictionary).current_combination
    /\ rec_last = "new"
    /\ panicked = FALSE
    /\ yielded = <<>>
    /\ last = "new"
    /\ extra = 0

\* one call of next() on each of the two generators
CallBoth ==
    /\ ~panicked
    /\ last = "none" => extra < MaxExtra
    /\ LET r == next(dictionary, Gen(generators, current_combination, FALSE))
           q == next_recursion(dictionary,
                               Gen(rec_generators, rec_current_combination, FALSE))
       IN
        /\ generators' = r.g.generators
        /\ current_combination' = r.g.current_combination
        /\ rec_generators' = q.g.generators
        /\ rec_current_combination' = q.g.current_combination
        /\ panicked' = (r.g.panic \/ q.g.panic)
        /\ yielded' = IF r.some THEN Append(yielded, r.item) ELSE yielded
        /\ last' = IF r.g.panic THEN "panic" ELSE IF r.some THEN "some" ELSE "none"
        /\ rec_last' = IF q.g.panic THEN "panic" ELSE IF q.some THEN "some" ELSE "none"
        /\ extra' = IF last = "none" THEN extra + 1 ELSE extra
    /\ UNCHANGED <<dictionary, max_length, pipeVars, cliVars, stepVars>>

VariantsNext == CallBoth

SpecVariants == VariantsInit /\ [][VariantsNext]_vars

----------------------------------------------------------------------------
(* Specification SpecSteps: next() of the build with feature "loop", one   *)
(* statement of increment at a time                                        *)

StepsInit ==
    /\ NoPipeline
    /\ NoCli
    /\ NoRec
    /\ NoSteps
    /\ dictionary \in Dictionaries
    /\ max_length \in 0..MaxLen
    /\ generators = new(max_length, dictionary).generators
    /\ current_combination = new(max_length, dictionary).current_combination
    /\ panicked = FALSE
    /\ yielded = <<>>
    /\ last = "new"
    /\ extra = 0

\* next() is called and enters increment: let mut tries = 0
EnterNext ==
    /\ pc = "idle"
    /\ ~panicked
    /\ last = "none" => extra < MaxExtra
    /\ pc' = "test"
    /\ loop_tries' = 0
    /\ entry' = Gen(generators, current_combination, FALSE)
    /\ UNCHANGED <<genVars, pipeVars, cliVars, recVars>>

\* the condition of the first while loop: increment_last_char is called,
\* and the body is entered when it failed and a cursor is left
LoopTest ==
    /\ pc = "test"
    /\ LET r == increment_last_char(dictionary,
                                    Gen(generators, current_combination, FALSE))
       IN
        /\ generators' = r.g.generators
        /\ current_combination' = r.g.current_combination
        /\ pc' = IF ~r.ok /\ Len(generators) # 0 THEN "pop_char" ELSE "check"
    /\ UNCHANGED <<dictionary, max_length, panicked, yielded, last, extra,
                   pipeVars, cliVars, recVars, loop_tries, entry>>

\* PopChar that leaves the buffer alone
PopChar_noop ==
    /\ pc = "pop_char"
    /\ pc' = "pop_cursor"
    /\ UNCHANGED <<genVars, pipeVars, cliVars, recVars, loop_tries, entry>>

\* self.current_combination.pop()
PopChar ==
    /\ pc = "pop_char"
    /\ current_combination' = Pop(current_combination)
    /\ pc' = "pop_cursor"
    /\ UNCHANGED <<dictionary, max_length, generators, panicked, yielded, last,
                   extra, pipeVars, cliVars, recVars, loop_tries, entry>>

\* self.generators.pop(); tries += 1
PopCursor ==
    /\ pc = "pop_cursor"
    /\ generators' = Pop(generators)
    /\ loop_tries' = loop_tries + 1
    /\ pc' = "test"
    /\ UNCHANGED <<dictionary, max_length, current_combination, panicked, yielded,
                   last, extra, pipeVars, cliVars, recVars, entry>>

\* if self.generators.len() == 0 { return Err(()) }: next() returns None
ReturnNone ==
    /\ pc = "check"
    /\ Len(generators) = 0
    /\ last' = "none"
    /\ extra' = IF last = "none" THEN extra + 1 ELSE extra
    /\ pc' = "idle"
    /\ UNCHANGED <<dictionary, max_length, generators, current_combination,
                   panicked, yielded, pipeVars, cliVars, recVars, loop_tries, entry>>

\* a cursor is left: on to the second while loop
PassCheck ==
    /\ pc = "check"
    /\ Len(generators) # 0
    /\ pc' = "recover"
    /\ UNCHANGED <<genVars, pipeVars, cliVars, recVars, loop_tries, entry>>

\* second loop, tries != 0: let mut new_chars = self.dictionary.chars();
\* self.current_combination.push(new_chars.next().unwrap())
PushChar ==
    /\ pc = "recover"
    /\ loop_tries # 0
    /\ IF Len(dictionary) = 0
       THEN /\ panicked' = TRUE
            /\ last' = "panic"
            /\ pc' = "idle"
            /\ UNCHANGED current_combination
       ELSE /\ current_combination' = Append(current_combination, dictionary[1])
            /\ pc' = "push_cursor"
            /\ UNCHANGED <<panicked, last>>
    /\ UNCHANGED <<dictionary, max_length, generators, yielded, extra,
                   pipeVars, cliVars, recVars, loop_tries, entry>>

\* PushCursor without `tries -= 1`
PushCursor_no_decrement ==
    /\ pc = "push_cursor"
    /\ generators' = Append(generators, 1)
    /\ pc' = "recover"
    /\ UNCHANGED <<dictionary, max_length, current_combination, panicked, yielded,
                   last, extra, pipeVars, cliVars, recVars, loop_tries, entry>>

\* self.generators.push(new_chars); tries -= 1
PushCursor ==
    /\ pc = "push_cursor"
    /\ generators' = Append(generators, 1)
    /\ loop_tries' = loop_tries - 1
    /\ pc' = "recover"
    /\ UNCHANGED <<dictionary, max_length, current_combination, panicked, yielded,
                   last, extra, pipeVars, cliVars, recVars, entry>>

\* second loop over, Ok(()): next() returns Some(current_combination.clone())
ReturnSome ==
    /\ pc = "recover"
    /\ loop_tries = 0
    /\ yielded' = Append(yielded, current_combination)
    /\ last' = "some"
    /\ pc' = "idle"
    /\ UNCHANGED <<dictionary, max_length, generators, current_combination,
                   panicked, extra, pipeVars, cliVars, recVars, loop_tries, entry>>

StepsNext ==
    \/ EnterNext
    \/ LoopTest
    \/ PopChar
    \/ PopCursor
    \/ ReturnNone
    \/ PassCheck
    \/ PushChar
    \/ PushCursor
    \/ ReturnSome

SpecSteps == StepsInit /\ [][StepsNext]_vars

\* the statements of increment, taken one at a time, add up to next()
StepsAgree ==
    (pc = "idle" /\ last # "new") =>
        LET r == next(dictionary, entry) IN
        /\ generators = r.g.generators
        /\ current_combination = r.g.current_combination
        /\ panicked = r.g.panic
        /\ (last = "some") = r.some

----------------------------------------------------------------------------
(* main: options, digest, and the pieces of one output line *)

\* worker threads of the rayon pool
NumWorkers == 2
\* the max_length values the pipeline is run with
PipeLengths == {0, 1, 2}
\* writes to stdout that the environment lets fail in one run
MaxFail == 1
\* bytes of the digest stand-in
DigestLen == 2

Workers == 1..NumWorkers

NoTask == [pc |-> "none"]

\* options.separator (its default)
Separator == <<" ", "-", ">", " ">>

\* options.domains tried
DomainLists ==
    { <<>>,
      << <<"x", ".", "c", "o", "m">> >>,
      << <<"x", ".", "c", "o", "m">>, <<"y", ".", "i", "o">> >> }

\* character codes (ASCII) of the characters the model uses
CharCode ==
    [c \in {"a", "b", "c", "d", "e", "i", "m", "o", "x", "y", ".", "@"} |->
        CASE c = "a" -> 97  [] c = "b" -> 98  [] c = "c" -> 99  [] c = "d" -> 100
          [] c = "e" -> 101 [] c = "i" -> 105 [] c = "m" -> 109 [] c = "o" -> 111
          [] c = "x" -> 120 [] c = "y" -> 121 [] c = "." -> 46  [] c = "@" -> 64]

\* Sha256::new / update / finalize: a digest of DigestLen bytes standing in for
\* SHA-256 (a deterministic function of the whole text)
RECURSIVE sha256_mix(_, _, _)
sha256_mix(text, i, h) ==
    IF i > Len(text)
    THEN h
    ELSE sha256_mix(text, i + 1, (h * 31 + CharCode[text[i]]) % Pow(256, DigestLen))

sha256(text) ==
    LET h == sha256_mix(text, 1, 7) IN
    [i \in 1..DigestLen |-> (h \div Pow(256, DigestLen - i)) % 256]

HexDigits == <<"0", "1", "2", "3", "4", "5", "6", "7", "8", "9",
               "a", "b", "c", "d", "e", "f">>

\* hex::encode: two lowercase hex digits per byte
RECURSIVE hex_encode(_)
hex_encode(bytes) ==
    IF Len(bytes) = 0
    THEN <<>>
    ELSE <<HexDigits[(Head(bytes) \div 16) + 1], HexDigits[(Head(bytes) % 16) + 1]>>
         \o hex_encode(Tail(bytes))

\* format!("{}@{}", username, domain)
format_email(username, domain) == username \o <<"@">> \o domain

\* the map closure: the address and its digest in hex
email_sha256_hex(email) == hex_encode(sha256(email))

\* filter closure with != for ==
matches_differs(hex, looking) == \E i \in DOMAIN looking : hex # looking[i]

\* filter closure comparing without regard to case
matches_ignore_case(hex, looking) ==
    LET up(c) == CASE c = "a" -> "A" [] c = "b" -> "B" [] c = "c" -> "C"
                   [] c = "d" -> "D" [] c = "e" -> "E" [] c = "f" -> "F"
                   [] OTHER -> c
        upper(s) == [i \in DOMAIN s |-> up(s[i])]
    IN \E i \in DOMAIN looking : upper(hex) = upper(looking[i])

\* filter closure that lowercases each looking_hash before comparing
matches_lowercasing(hex, looking) ==
    LET low(c) == CASE c = "A" -> "a" [] c = "B" -> "b" [] c = "C" -> "c"
                    [] c = "D" -> "d" [] c = "E" -> "e" [] c = "F" -> "f"
                    [] OTHER -> c
        lower(s) == [i \in DOMAIN s |-> low(s[i])]
    IN \E i \in DOMAIN looking : hex = lower(looking[i])

\* the filter closure: some looking_hash is string-equal to the hex digest
matches(hex, looking) == \E i \in DOMAIN looking : hex = looking[i]

\* the uppercase spelling of a hex string
ToUpperHex(s) ==
    [i \in DOMAIN s |->
        CASE s[i] = "a" -> "A" [] s[i] = "b" -> "B" [] s[i] = "c" -> "C"
          [] s[i] = "d" -> "D" [] s[i] = "e" -> "E" [] s[i] = "f" -> "F"
          [] OTHER -> s[i]]

DigestOf(username, domain) == email_sha256_hex(format_email(username, domain))

XCom == <<"x", ".", "c", "o", "m">>
YIo == <<"y", ".", "i", "o">>

\* options.hashed_emails tried
TargetLists ==
    { <<>>,
      << DigestOf(<<"a", "b">>, XCom) >>,
      << DigestOf(<<"a">>, XCom), DigestOf(<<"b", "b">>, YIo) >>,
      << ToUpperHex(DigestOf(<<"a", "b">>, XCom)) >> }

\* the four pieces writeln!(handle, "{}{}{}", email, separator, hex) writes
PieceText(job, part) ==
    CASE part = 1 -> job.email
      [] part = 2 -> Separator
      [] part = 3 -> job.hex
      [] part = 4 -> <<"\n">>

----------------------------------------------------------------------------
(* Specification SpecPipeline: main's parallel pipeline *)

PipeInit ==
    /\ NoCli
    /\ NoRec
    /\ NoSteps
    /\ dictionary = <<"a", "b">>
    /\ max_length \in PipeLengths
    /\ domains \in DomainLists
    /\ hashed_emails \in TargetLists
    /\ generators = new(max_length, dictionary).generators
    /\ current_combination = new(max_length, dictionary).current_combination
    /\ panicked = FALSE
    /\ yielded = <<>>
    /\ last = "new"
    /\ extra = 0
    /\ fold = [w \in Workers |-> "poll"]
    /\ tasks = {}
    /\ run = [w \in Workers |-> NoTask]
    /\ stdout_lock = 0
    /\ sink = <<>>
    /\ failed = {}
    /\ filtered = EmptyBag
    /\ main = "running"

\* flat_map with only the first domain
domain_tasks_first(w, n) ==
    {[owner |-> w, n |-> n, d |-> d] : d \in DOMAIN domains \cap {1}}

\* flat_map: one job per entry of options.domains for the username taken
domain_tasks(w, n) ==
    {[owner |-> w, n |-> n, d |-> d] : d \in DOMAIN domains}

\* worker o has nothing left of the item it took: its flat_map returns
Outstanding(o, ts, rn) ==
    \/ \E t \in ts : t.owner = o
    \/ \E x \in Workers : rn[x] # NoTask /\ rn[x].owner = o

FoldAfter(ts, rn) ==
    [o \in Workers |->
        IF fold[o] = "wait" /\ ~Outstanding(o, ts, rn) THEN "poll" ELSE fold[o]]

\* par_bridge: worker w locks the iterator, calls next() and unlocks
Poll(w) ==
    /\ main = "running"
    /\ fold[w] = "poll"
    /\ run[w] = NoTask
    /\ LET r == next(dictionary, Gen(generators, current_combination, FALSE))
           new_tasks == domain_tasks(w, Len(yielded) + 1)
       IN
        /\ generators' = r.g.generators
        /\ current_combination' = r.g.current_combination
        /\ panicked' = (panicked \/ r.g.panic)
        /\ yielded' = IF r.some THEN Append(yielded, r.item) ELSE yielded
        /\ last' = IF r.g.panic THEN "panic" ELSE IF r.some THEN "some" ELSE "none"
        /\ extra' = IF last = "none" THEN extra + 1 ELSE extra
        /\ tasks' = IF r.some THEN tasks \cup new_tasks ELSE tasks
        /\ fold' = IF r.g.panic THEN [o \in Workers |-> "end"]
                   ELSE IF ~r.some THEN [fold EXCEPT ![w] = "end"]
                   ELSE IF new_tasks = {} THEN fold
                   ELSE [fold EXCEPT ![w] = "wait"]
    /\ UNCHANGED <<cliVars, auxVars, dictionary, max_length, domains, hashed_emails, run,
                   stdout_lock, sink, failed, filtered, main>>

\* a worker inside flat_map (its own item, or stealing) runs a job up to the
\* for_each closure: format the address, hash it, filter it; a job that
\* does not match is over
Process(w) ==
    /\ main = "running"
    /\ fold[w] # "poll"
    /\ run[w] = NoTask
    /\ \E t \in tasks :
        LET email == format_email(yielded[t.n], domains[t.d])
            hex == email_sha256_hex(email)
        IN
        /\ tasks' = tasks \ {t}
        /\ filtered' = filtered (+) SetToBag({<<t.n, t.d>>})
        /\ IF matches(hex, hashed_emails)
           THEN /\ run' = [run EXCEPT ![w] =
                            [pc |-> "lock", owner |-> t.owner, n |-> t.n, d |-> t.d,
                             email |-> email, hex |-> hex, part |-> 0]]
                /\ fold' = fold
           ELSE /\ run' = run
                /\ fold' = FoldAfter(tasks', run')
    /\ UNCHANGED <<cliVars, auxVars, genVars, domains, hashed_emails, stdout_lock, sink, failed, main>>

\* stdout.lock() taken without waiting for the holder
Lock_unguarded(w) ==
    /\ main = "running"
    /\ run[w].pc = "lock"
    /\ stdout_lock' = w
    /\ run' = [run EXCEPT ![w].pc = "write", ![w].part = 1]
    /\ UNCHANGED <<cliVars, auxVars, genVars, domains, hashed_emails, fold, tasks, sink, failed,
                   filtered, main>>

\* for_each closure: let mut handle = stdout.lock()
Lock(w) ==
    /\ main = "running"
    /\ run[w].pc = "lock"
    /\ stdout_lock = 0
    /\ stdout_lock' = w
    /\ run' = [run EXCEPT ![w].pc = "write", ![w].part = 1]
    /\ UNCHANGED <<cliVars, auxVars, genVars, domains, hashed_emails, fold, tasks, sink, failed,
                   filtered, main>>

\* writeln! writes its next piece; after the newline the closure ends and
\* the handle is dropped
WriteOk(w) ==
    /\ main = "running"
    /\ run[w].pc = "write"
    /\ sink' = Append(sink, [task |-> <<run[w].n, run[w].d>>, part |-> run[w].part,
                             text |-> PieceText(run[w], run[w].part)])
    /\ IF run[w].part = 4
       THEN /\ run' = [run EXCEPT ![w] = NoTask]
            /\ stdout_lock' = 0
            /\ fold' = FoldAfter(tasks, run')
       ELSE /\ run' = [run EXCEPT ![w].part = @ + 1]
            /\ UNCHANGED <<cliVars, auxVars, stdout_lock, fold>>
    /\ UNCHANGED <<cliVars, auxVars, genVars, domains, hashed_emails, tasks, failed, filtered, main>>

\* a failed piece answered by starting the line over
WriteErr_retry(w) ==
    /\ main = "running"
    /\ run[w].pc = "write"
    /\ Cardinality(failed) < MaxFail
    /\ failed' = failed \cup {<<run[w].n, run[w].d>>}
    /\ run' = [run EXCEPT ![w].part = 1]
    /\ UNCHANGED <<cliVars, auxVars, genVars, domains, hashed_emails, fold, tasks, stdout_lock, sink,
                   filtered, main>>

\* writeln! returns Err: panic!; unwinding drops the handle, and the panic
\* ends the loop of the worker whose item the job belongs to
WriteErr(w) ==
    /\ main = "running"
    /\ run[w].pc = "write"
    /\ Cardinality(failed) < MaxFail
    /\ failed' = failed \cup {<<run[w].n, run[w].d>>}
    /\ panicked' = TRUE
    /\ stdout_lock' = 0
    /\ fold' = [fold EXCEPT ![run[w].owner] = "end"]
    /\ run' = [run EXCEPT ![w] = NoTask]
    /\ UNCHANGED <<cliVars, auxVars, dictionary, max_length, generators, current_combination,
                   yielded, last, extra, domains, hashed_emails, tasks, sink,
                   filtered, main>>

\* for_each returning as soon as one line is out
Finish_on_match ==
    /\ main = "running"
    /\ \/ \E i \in DOMAIN sink : sink[i].part = 4
       \/ /\ \A w \in Workers : fold[w] = "end" /\ run[w] = NoTask
          /\ tasks = {}
    /\ main' = IF panicked THEN "panic" ELSE "done"
    /\ UNCHANGED <<cliVars, auxVars, genVars, domains, hashed_emails, fold, tasks, run, stdout_lock,
                   sink, failed, filtered>>

\* for_each returns to main (or resumes the panic there) once every worker
\* has left its loop and no job is left
Finish ==
    /\ main = "running"
    /\ \A w \in Workers : fold[w] = "end" /\ run[w] = NoTask
    /\ tasks = {}
    /\ main' = IF panicked THEN "panic" ELSE "done"
    /\ UNCHANGED <<cliVars, auxVars, genVars, domains, hashed_emails, fold, tasks, run, stdout_lock,
                   sink, failed, filtered>>

PipeNext ==
    \/ \E w \in Workers : Poll(w)
    \/ \E w \in Workers : Process(w)
    \/ \E w \in Workers : Lock(w)
    \/ \E w \in Workers : WriteOk(w)
    \/ \E w \in Workers : WriteErr(w)
    \/ Finish

SpecPipeline == PipeInit /\ [][PipeNext]_vars

----------------------------------------------------------------------------
(* Specification SpecCli: main from CliOpts::from_args to StringsGenerator::new *)

\* largest value of CliOpts.max_length (u8)
U8Max == 255
\* longest valid username of an email address
MaxUsername == 64

\* the options block with the clamped value thrown away
clamp_dropped(m) == m

\* if options.max_length > 64 { options.max_length = 64 }
clamp(m) == IF m > MaxUsername THEN MaxUsername ELSE m

CliInit ==
    /\ NoPipeline
    /\ NoRec
    /\ NoSteps
    /\ arg_max_length \in 0..U8Max
    /\ options_max_length = arg_max_length
    /\ stage = "parsed"
    /\ dictionary = DICTIONARY
    /\ max_length = 0
    /\ generators = <<>>
    /\ current_combination = <<>>
    /\ panicked = FALSE
    /\ yielded = <<>>
    /\ last = "new"
    /\ extra = 0

\* the block that builds `options`
ClampOptions ==
    /\ stage = "parsed"
    /\ options_max_length' = clamp(options_max_length)
    /\ stage' = "clamped"
    /\ UNCHANGED <<genVars, pipeVars, auxVars, arg_max_length>>

\* StringsGenerator::new(options.max_length.into(), DICTIONARY)
BuildGenerator ==
    /\ stage = "clamped"
    /\ max_length' = options_max_length
    /\ generators' = new(options_max_length, DICTIONARY).generators
    /\ current_combination' = new(options_max_length, DICTIONARY).current_combination
    /\ stage' = "built"
    /\ UNCHANGED <<dictionary, panicked, yielded, last, extra, pipeVars, auxVars,
                   arg_max_length, options_max_length>>

CliNext == ClampOptions \/ BuildGenerator

SpecCli == CliInit /\ [][CliNext]_vars

----------------------------------------------------------------------------
(* Vocabulary of the properties *)

Distinct(s) == Cardinality(Range(s)) = Len(s)

\* k^1 + ... + k^n
RECURSIVE SumPow(_, _)
SumPow(k, n) == IF n = 0 THEN 0 ELSE Pow(k, n) + SumPow(k, n - 1)

\* every string of length 1..n over the characters of dict
StringsOver(dict, n) == UNION {[1..i -> Range(dict)] : i \in 1..n}

\* position of a character in a dictionary of distinct characters
PosIn(dict, ch) == CHOOSE i \in DOMAIN dict : dict[i] = ch

\* s comes strictly before t (same length) in the order of dictionary positions
LexLess(dict, s, t) ==
    \E p \in DOMAIN s :
        /\ \A q \in 1..(p - 1) : s[q] = t[q]
        /\ PosIn(dict, s[p]) < PosIn(dict, t[p])

\* length of the i-th string (i >= 1) an odometer over k symbols shows
RECURSIVE OdoLen(_, _, _)
OdoLen(k, i, l) == IF i <= Pow(k, l) THEN l ELSE OdoLen(k, i - Pow(k, l), l + 1)

\* the i-th string of the odometer over dict: all of length 1, then length 2, ...
OdoAt(dict, i) ==
    LET k == Len(dict)
        l == OdoLen(k, i, 1)
        j == i - 1 - SumPow(k, l - 1)
    IN [p \in 1..l |-> dict[((j \div Pow(k, l - p)) % k) + 1]]

----------------------------------------------------------------------------
(* Properties of the generator, checked under Spec *)

\* C1: with k distinct characters and max_length n, the strings yielded up to
\* the first None are k^1 + ... + k^n many, pairwise different, and are
\* exactly the strings of length 1..n over the dictionary.
C1_Exhaustive ==
    (last = "none" /\ Distinct(dictionary)) =>
        /\ Len(yielded) = SumPow(Len(dictionary), max_length)
        /\ \A i, j \in DOMAIN yielded : i # j => yielded[i] # yielded[j]
        /\ Range(yielded) = StringsOver(dictionary, max_length)

C1_Witness ==
    /\ last = "none"
    /\ dictionary = <<"a", "b", "c">>
    /\ max_length = 3
    /\ Len(yielded) = 39

\* C2: once next() has returned None, every later call returns None, yields
\* nothing more and does not panic; no call panics at all.
C2_ExhaustionTerminal ==
    [][/\ ~panicked'
       /\ last = "none" => (last' = "none" /\ yielded' = yielded)]_vars

C2_Witness ==
    /\ last = "none"
    /\ extra = MaxExtra
    /\ Len(yielded) > 0
    /\ ~panicked

\* C3: the strings come in odometer order: lengths never decrease, strings of
\* one length come in lexicographic order of dictionary positions, the i-th
\* string yielded is the i-th reading of an odometer whose rightmost digit
\* cycles fastest; abc with max_length 2 gives a, b, c, aa, ab, ..., cc.
C3_OdometerOrder ==
    Distinct(dictionary) =>
        /\ \A i, j \in DOMAIN yielded : i < j =>
              /\ Len(yielded[i]) <= Len(yielded[j])
              /\ Len(yielded[i]) = Len(yielded[j])
                    => LexLess(dictionary, yielded[i], yielded[j])
        /\ \A i \in DOMAIN yielded : yielded[i] = OdoAt(dictionary, i)
        /\ (dictionary = <<"a", "b", "c">> /\ max_length = 2 /\ last = "none") =>
              yielded = << <<"a">>, <<"b">>, <<"c">>,
                           <<"a", "a">>, <<"a", "b">>, <<"a", "c">>,
                           <<"b", "a">>, <<"b", "b">>, <<"b", "c">>,
                           <<"c", "a">>, <<"c", "b">>, <<"c", "c">> >>

C3_Witness ==
    /\ dictionary = <<"a", "b", "c">>
    /\ max_length = 2
    /\ last = "none"
    /\ Len(yielded) = 12
    /\ yielded[4] = <<"a", "a">>
    /\ yielded[12] = <<"c", "c">>

----------------------------------------------------------------------------
(* Properties of the pipeline, checked under SpecPipeline *)

\* number of complete lines (closed by their newline) the job left in the sink
LineCount(task) ==
    Cardinality({i \in DOMAIN sink : sink[i].task = task /\ sink[i].part = 4})

\* the complete lines of the sink, each as <<email, separator, digest>>
SinkLines ==
    {<<sink[i - 3].text, sink[i - 2].text, sink[i - 1].text>> :
        i \in {j \in DOMAIN sink : sink[j].part = 4 /\ j >= 4}}

\* the lines the configuration calls for, whatever the schedule
ExpectedLines ==
    {<<format_email(p[1], domains[p[2]]), Separator, DigestOf(p[1], domains[p[2]])>> :
        p \in {q \in StringsOver(dictionary, max_length) \X (DOMAIN domains) :
                  \E i \in DOMAIN hashed_emails :
                      hashed_emails[i] = DigestOf(q[1], domains[q[2]])}}

Jobs == (DOMAIN yielded) \X (DOMAIN domains)

\* C4: every address written to the sink is u@d for a yielded username u and
\* a configured domain d, its lowercase-hex digest is string-equal to an
\* entry of hashed_emails, and that digest is what follows it on the line;
\* with ab, max_length 2, x.com and the digest of ab@x.com wanted, no
\* address other than ab@x.com is written.
C4_OnlyMatchesEmitted ==
    /\ \A i \in DOMAIN sink :
        /\ sink[i].part = 1 =>
            /\ \E u \in Range(yielded), d \in Range(domains) :
                  sink[i].text = u \o <<"@">> \o d
            /\ hex_encode(sha256(sink[i].text)) \in Range(hashed_emails)
        /\ (sink[i].part = 3 /\ i >= 3) =>
              sink[i].text = hex_encode(sha256(sink[i - 2].text))
    /\ (domains = <<XCom>> /\ hashed_emails = <<DigestOf(<<"a", "b">>, XCom)>>) =>
          \A i \in DOMAIN sink :
              sink[i].part = 1 => sink[i].text = <<"a", "b", "@">> \o XCom

C4_Witness ==
    /\ domains = <<XCom>>
    /\ hashed_emails = <<DigestOf(<<"a", "b">>, XCom)>>
    /\ SinkLines = {<< <<"a", "b", "@">> \o XCom, Separator, DigestOf(<<"a", "b">>, XCom) >>}
    /\ BagToSet(filtered) = (1..6) \X {1}

\* C5: when the pipeline has returned normally, every (yielded username,
\* domain entry) went through the filter exactly once, nothing else did, and
\* a pair has exactly one complete line in the sink if its digest is wanted
\* and none otherwise.
C5_EachMatchOnce ==
    main = "done" =>
        /\ BagToSet(filtered) = Jobs
        /\ \A t \in Jobs :
            /\ CopiesIn(t, filtered) = 1
            /\ LineCount(t) =
                 IF \E i \in DOMAIN hashed_emails :
                        hashed_emails[i] = DigestOf(yielded[t[1]], domains[t[2]])
                 THEN 1 ELSE 0
            /\ \A i \in DOMAIN sink : (sink[i].task = t /\ sink[i].part = 1) =>
                  sink[i].text = format_email(yielded[t[1]], domains[t[2]])
        /\ \A i \in DOMAIN sink : sink[i].task \in Jobs

C5_Witness ==
    /\ main = "done"
    /\ Len(domains) = 2
    /\ Len(yielded) = 6
    /\ LineCount(<<1, 1>>) = 1
    /\ LineCount(<<6, 2>>) = 1
    /\ sink[1].task = <<1, 1>>

\* C6: the set of lines of a run that returned normally is the set the
\* configuration calls for, so it is the same under every schedule; the
\* order of the lines is not fixed.
C6_SameSetEverySchedule ==
    main = "done" => SinkLines = ExpectedLines

C6_Witness ==
    /\ main = "done"
    /\ Cardinality(SinkLines) = 2
    /\ sink[1].task = <<6, 2>>
    /\ sink[5].task = <<1, 1>>

\* C7: at most one worker holds the stdout lock, a worker writes only while
\* it holds it, and the pieces of a line (email, separator, digest, newline)
\* lie next to each other in the sink, in order, with no piece of another
\* line between them.
C7_LinesNotInterleaved ==
    /\ Cardinality({w \in Workers : run[w].pc = "write"}) <= 1
    /\ \A w \in Workers : run[w].pc = "write" <=> stdout_lock = w
    /\ \A i \in DOMAIN sink :
        /\ sink[i].part > 1 =>
            /\ i > 1
            /\ sink[i - 1].task = sink[i].task
            /\ sink[i - 1].part = sink[i].part - 1
        /\ (sink[i].part = 1 /\ i > 1) =>
              \/ sink[i - 1].part = 4
              \/ sink[i - 1].task \in failed
        /\ (sink[i].part < 4 /\ i = Len(sink)) =>
              \/ sink[i].task \in failed
              \/ /\ stdout_lock # 0
                 /\ <<run[stdout_lock].n, run[stdout_lock].d>> = sink[i].task
                 /\ run[stdout_lock].part = sink[i].part + 1

C7_Witness ==
    \E w, x \in Workers :
        /\ run[w].pc = "write"
        /\ run[w].part = 3
        /\ run[x].pc = "lock"
        /\ Len(sink) = 2

\* C8: the pipeline returns normally only when the generator has reported
\* exhaustion, having yielded every string, and every yielded username has
\* been through the filter with every domain; a match does not stop it.
C8_RunsToExhaustion ==
    main = "done" =>
        /\ last = "none"
        /\ generators = <<>>
        /\ Len(yielded) = SumPow(Len(dictionary), max_length)
        /\ tasks = {}
        /\ \A w \in Workers : run[w] = NoTask
        /\ \A t \in Jobs : CopiesIn(t, filtered) >= 1

C8_Witness ==
    /\ main = "done"
    /\ max_length = 2
    /\ domains = <<XCom>>
    /\ LineCount(<<4, 1>>) = 1
    /\ CopiesIn(<<5, 1>>, filtered) = 1
    /\ CopiesIn(<<6, 1>>, filtered) = 1

\* C9: a job whose writeln failed made its worker panic, is not run or
\* queued again, never gets a complete line and was attempted once; the run
\* does not return normally, and it ends in a panic exactly when a write
\* failed.
C9_WriteFailureFatal ==
    /\ \A t \in failed :
        /\ panicked
        /\ main # "done"
        /\ LineCount(t) = 0
        /\ Cardinality({i \in DOMAIN sink : sink[i].task = t /\ sink[i].part = 1}) <= 1
        /\ \A q \in tasks : <<q.n, q.d>> # t
        /\ \A w \in Workers : run[w] # NoTask => <<run[w].n, run[w].d>> # t
    /\ main = "panic" <=> (main # "running" /\ failed # {})

C9_Witness ==
    /\ main = "panic"
    /\ failed = {<<1, 1>>}
    /\ \E i \in DOMAIN sink : sink[i].task = <<1, 1>> /\ sink[i].part = 2
    /\ LineCount(<<6, 2>>) = 1

----------------------------------------------------------------------------
(* Properties of the command line, checked under SpecCli *)

\* C10: the max_length StringsGenerator::new gets is min(requested, 64) for
\* every requested value 0..255: above 64 the generator is the one a request
\* of 64 builds, up to 64 the request is passed unchanged.
C10_ClampedTo64 ==
    /\ arg_max_length \in 0..255
    /\ stage = "built" =>
        /\ max_length = IF arg_max_length <= 64 THEN arg_max_length ELSE 64
        /\ Len(generators) = max_length
        /\ arg_max_length > 64 =>
              /\ generators = [i \in 1..64 |-> 0]
              /\ current_combination = <<>>
        /\ arg_max_length <= 64 => max_length = arg_max_length

C10_Witness ==
    /\ stage = "built"
    /\ arg_max_length = 200
    /\ max_length = 64
    /\ Len(generators) = 64

----------------------------------------------------------------------------
(* Edge cases of the generator, checked under Spec *)

\* C11: with a dictionary of one character x and max_length n the i-th
\* string yielded is x repeated i times, and at the first None exactly n
\* strings, one of each length 1..n, have been yielded.
C11_SingleCharDictionary ==
    Len(dictionary) = 1 =>
        /\ \A i \in DOMAIN yielded : yielded[i] = [p \in 1..i |-> dictionary[1]]
        /\ Len(yielded) <= max_length
        /\ last = "none" =>
              /\ Len(yielded) = max_length
              /\ {Len(yielded[i]) : i \in DOMAIN yielded} = 1..max_length

C11_Witness ==
    /\ Len(dictionary) = 1
    /\ max_length = 3
    /\ last = "none"
    /\ yielded = << <<dictionary[1]>>,
                    <<dictionary[1], dictionary[1]>>,
                    <<dictionary[1], dictionary[1], dictionary[1]>> >>

\* C12: with an empty dictionary the generator never yields a string and
\* never panics, whatever max_length: every call of next(), the first
\* included, returns None.
C12_EmptyDictionary ==
    Len(dictionary) = 0 =>
        /\ yielded = <<>>
        /\ ~panicked
        /\ last \in {"new", "none"}

C12_Witness ==
    /\ Len(dictionary) = 0
    /\ max_length = 3
    /\ last = "none"
    /\ extra = 1
    /\ yielded = <<>>
    /\ generators = <<>>

\* C13: a generator built with max_length = 0 holds no cursor, yields no
\* string and returns None from its first call on, whatever the dictionary.
C13_ZeroLength ==
    max_length = 0 =>
        /\ generators = <<>>
        /\ current_combination = <<>>
        /\ yielded = <<>>
        /\ ~panicked
        /\ last \in {"new", "none"}

C13_Witness ==
    /\ max_length = 0
    /\ Len(dictionary) = 3
    /\ last = "none"
    /\ yielded = <<>>

----------------------------------------------------------------------------
(* The two variants of increment, checked under SpecVariants *)

----------------------------------------------------------------------------
(* Buffer and cursor stack between calls, checked under Spec *)

\* C15 as claimed: after construction and after every call of next() the
\* buffer holds exactly as many characters as there are cursors.
C15_BufferEqualsCursors ==
    Len(current_combination) = Len(generators)

\* C15, amended: after construction and after every call of next() the
\* buffer is never longer than the cursor stack.  The stack holds
\* max_length cursors after construction and after every call that returned
\* a string, the buffer holds the string just returned (nothing after
\* construction), and both are empty after a None.  The two lengths are
\* equal only when the buffer holds max_length characters or the stack is
\* empty.
C15_BufferWithinCursors ==
    /\ Len(current_combination) <= Len(generators)
    /\ last \in {"new", "some"} => Len(generators) = max_length
    /\ last = "new" => current_combination = <<>>
    /\ last = "some" => current_combination = yielded[Len(yielded)]
    /\ last = "none" => (generators = <<>> /\ current_combination = <<>>)
    /\ (Len(current_combination) = Len(generators))
         <=> (Len(current_combination) = max_length \/ generators = <<>>)

C15_Witness ==
    /\ last = "some"
    /\ max_length = 3
    /\ Len(generators) = 3
    /\ Len(current_combination) = 1
    /\ Len(yielded) = 2

----------------------------------------------------------------------------
(* Inside a step, checked under SpecSteps (C17 under Spec) *)

\* the last cursor exists and has a character left to hand out
LastHasNext ==
    /\ Len(generators) > 0
    /\ generators[Len(generators)] < Len(dictionary)

\* C16 as claimed: whenever the last cursor has a next character,
\* increment_last_char leaves the length of the buffer as it was.
C16_LengthUnchanged ==
    [][(pc = "test" /\ LastHasNext) =>
          Len(current_combination') = Len(current_combination)]_vars

\* C16, amended: whenever the last cursor has a next character,
\* increment_last_char puts that character at the end of the buffer and
\* leaves the characters before the last one untouched: on a non-empty
\* buffer it replaces the last character and the length is unchanged, on an
\* empty buffer (the first call after construction, or a carry into a
\* position that has held no character yet) the length grows from 0 to 1.
C16_ReplacesLastOrAppendsFirst ==
    [][(pc = "test" /\ LastHasNext) =>
          /\ Len(current_combination') =
                IF Len(current_combination) = 0 THEN 1 ELSE Len(current_combination)
          /\ Pop(current_combination') = Pop(current_combination)
          /\ current_combination'[Len(current_combination')] =
                dictionary[generators[Len(generators)] + 1]
          /\ generators' = [generators EXCEPT ![Len(generators)] = @ + 1]
          /\ pc' = "check"]_vars

C16_Witness ==
    /\ pc = "check"
    /\ entry = new(max_length, dictionary)
    /\ max_length = 2
    /\ yielded = <<>>
    /\ loop_tries = 0
    /\ Len(current_combination) = 1

\* number of cursors at the end of the stack that have handed out all k characters
RECURSIVE Spent(_, _)
Spent(gens, k) ==
    IF Len(gens) = 0 \/ gens[Len(gens)] # k THEN 0 ELSE 1 + Spent(Pop(gens), k)

\* C17: a call of next() that returns a string leaves as many cursors as it
\* found, max_length of them: the cursors left of the advanced one are
\* untouched, the advanced one moved by one, and every position right of
\* it (the ones dropped while carrying) holds the first character of the
\* dictionary with its cursor moved past that character.
C17_RestoresCarried ==
    [][last' = "some" =>
          LET n == Len(generators)
              t == Spent(generators, Len(dictionary))
              m == Len(current_combination')
          IN
          /\ Len(generators') = n
          /\ n = max_length
          /\ t < n
          /\ \A i \in 1..(n - t - 1) : generators'[i] = generators[i]
          /\ generators'[n - t] = generators[n - t] + 1
          /\ \A i \in (n - t + 1)..n : generators'[i] = 1
          /\ m > t
          /\ current_combination'[m - t] = dictionary[generators[n - t] + 1]
          /\ \A j \in (m - t + 1)..m : current_combination'[j] = dictionary[1]]_vars

C17_Witness ==
    /\ last = "some"
    /\ dictionary = <<"a", "b">>
    /\ max_length = 3
    /\ generators = <<2, 1, 1>>
    /\ current_combination = <<"b", "a", "a">>

\* C18: in every state, between the statements of a carrying step too,
\* the cursor stack holds between 0 and max_length cursors.
C18_CursorsWithinBounds ==
    /\ Len(generators) >= 0
    /\ Len(generators) <= max_length

C18_Witness ==
    /\ pc = "test"
    /\ max_length = 3
    /\ loop_tries = 2
    /\ Len(generators) = 1
    /\ Len(yielded) > 0

\* C20 as claimed: in every state, between the statements of a carrying
\* step too, the buffer is no longer than the cursor stack, which is no
\* longer than max_length, and the buffer is empty once the generator is
\* exhausted.
C20_BufferNeverLonger ==
    /\ Len(current_combination) <= Len(generators)
    /\ Len(generators) <= max_length
    /\ last = "none" => current_combination = <<>>

\* C20, amended: the buffer is no longer than the cursor stack in every
\* state but one: between the push of a restored character and the push of
\* its cursor the buffer may be one character longer than the stack.  In
\* every state the stack and the buffer are no longer than max_length, and
\* the buffer is empty once the generator is exhausted.
C20_BufferAtMostOneAhead ==
    /\ pc # "push_cursor" => Len(current_combination) <= Len(generators)
    /\ pc = "push_cursor" => Len(current_combination) <= Len(generators) + 1
    /\ Len(generators) <= max_length
    /\ Len(current_combination) <= max_length
    /\ last = "none" => current_combination = <<>>

C20_Witness ==
    /\ pc = "push_cursor"
    /\ max_length = 2
    /\ Len(generators) = 1
    /\ Len(current_combination) = 2

----------------------------------------------------------------------------
(* The comparison of digests, checked under SpecPipeline *)

AbAtXCom == format_email(<<"a", "b">>, XCom)

\* C19: the comparison with the wanted digests is exact and case-sensitive.
\* When hashed_emails holds only the uppercase-hex spelling of the digest of
\* ab@x.com (and that spelling differs from the lowercase one), nothing is
\* ever written, although the enumeration reaches ab@x.com; when it holds
\* the lowercase spelling, a run that returned normally and reached
\* ab@x.com has written its line.
C19_CaseSensitiveComparison ==
    LET low == DigestOf(<<"a", "b">>, XCom)
        up == ToUpperHex(low)
    IN
    /\ (hashed_emails = <<up>> /\ up # low) => sink = <<>>
    /\ (/\ hashed_emails = <<low>>
        /\ main = "done"
        /\ <<"a", "b">> \in Range(yielded)
        /\ XCom \in Range(domains)) =>
          <<AbAtXCom, Separator, low>> \in SinkLines

C19_Witness ==
    LET low == DigestOf(<<"a", "b">>, XCom)
        up == ToUpperHex(low)
    IN
    /\ main = "done"
    /\ up # low
    /\ hashed_emails = <<up>>
    /\ domains = <<XCom>>
    /\ Len(yielded) = 6
    /\ yielded[4] = <<"a", "b">>
    /\ CopiesIn(<<4, 1>>, filtered) = 1
    /\ sink = <<>>

====
